---------------------------- MODULE Spec2Model ----------------------------
(***************************************************************************)
(* Enrollment, exam submission and grading of the onlinecourse             *)
(* application (onlinecourse/views.py, onlinecourse/models.py).            *)
(*                                                                         *)
(* The database tables are the shared state.  Django runs in autocommit    *)
(* mode and the views open no transaction, so every ORM call of a view is  *)
(* a database operation of its own: the enroll view is modelled as the     *)
(* four operations it issues (load the course, count the enrollments,      *)
(* insert the enrollment, save the course), which requests served          *)
(* concurrently may interleave.                                            *)
(***************************************************************************)
EXTENDS Integers, FiniteSets, Sequences, TLC

(***************************************************************************)
(* The catalog: rows created by instructors through the admin site.        *)
(***************************************************************************)
\* request.user: two registered learners, and AnonymousUser (user.id is None)
Users == {"u1", "u2"}
AnonymousUser == "anonymous"
Callers == Users \cup {AnonymousUser}

\* Course rows, and a primary key no Course row has
Courses == {"c1", "c2"}
NoCourse == "c0"
CourseIds == Courses \cup {NoCourse}

\* Question rows: Question.course and Question.grade
Questions == {"q1", "q2", "q3"}
question_course == [q \in Questions |-> IF q = "q3" THEN "c2" ELSE "c1"]
question_grade == [q \in Questions |-> CASE q = "q1" -> 50 [] q = "q2" -> 30 [] OTHER -> 20]

\* Choice rows: Choice.question (q1 has two choices, q2 and q3 one each)
Choices == {"A", "B", "C", "D"}
choice_question == [ch \in Choices |->
                      CASE ch \in {"A", "B"} -> "q1" [] ch = "C" -> "q2" [] OTHER -> "q3"]

\* Choice.is_correct as the instructors entered it
InitialKey == [ch \in Choices |-> ch # "D"]

\* Worker processes of the web server, each serving one request at a time
Procs == {"w1", "w2", "w3"}

\* Bounds of the model
MaxEnrollments == 3
MaxRaceSubmissions == 1
MaxSubmissions == 1

VARIABLES
  enrollments,       \* the Enrollment table: rows [id, user, course, mode]
  total_enrollment,  \* Course.total_enrollment of every Course row
  submissions,       \* the Submission table: rows [id, enrollment, choices]
  is_correct,        \* Choice.is_correct of every Choice row
  req,               \* per worker: the enroll request it is serving, with its locals
  resp               \* the response of the request that finished last

vars == <<enrollments, total_enrollment, submissions, is_correct, req, resp>>

\* A worker that serves no request
Idle == [pc |-> "idle"]

\* Enrollment.objects.filter(user=user, course=course)
EnrollmentsOf(user, course) ==
  {e \in enrollments : e.user = user /\ e.course = course}

\* user.is_authenticated: False for AnonymousUser only
is_authenticated(user) == user # AnonymousUser

\* check_if_enrolled with the test num_results > 1 in place of num_results > 0
check_if_enrolled_off_by_one(user, course) ==
  IF user # AnonymousUser
    THEN Cardinality(EnrollmentsOf(user, course)) > 1
    ELSE FALSE

\* check_if_enrolled(user, course)
check_if_enrolled(user, course) ==
  IF user # AnonymousUser
    THEN Cardinality(EnrollmentsOf(user, course)) > 0
    ELSE FALSE

\* the condition of enroll without its test of user.is_authenticated
EnrollGuard_unauthenticated(is_enrolled, user) == ~is_enrolled

\* the condition under which enroll creates an Enrollment
EnrollGuard(is_enrolled, user) == ~is_enrolled /\ is_authenticated(user)

\* The primary key the database gives the next row of a table (rows are
\* never deleted by the views)
NextId(table) == Cardinality(table) + 1


(***************************************************************************)
(* enroll(request, course_id): views.py 163-177                            *)
(***************************************************************************)
\* course = get_object_or_404(Course, pk=course_id); user = request.user.
\* The loaded Course object carries the counter as it was read.
enroll_get_course(p, user, course_id) ==
  /\ req[p] = Idle
  /\ IF course_id \in Courses
       THEN /\ req' = [req EXCEPT ![p] =
                        [pc |-> "check", user |-> user,
                         course |-> [id |-> course_id,
                                     total_enrollment |-> total_enrollment[course_id]]]]
            /\ UNCHANGED resp
       ELSE /\ resp' = [view |-> "enroll", user |-> user, course_id |-> course_id,
                        status |-> "404"]
            /\ UNCHANGED req
  /\ UNCHANGED <<enrollments, total_enrollment, submissions, is_correct>>

\* is_enrolled = check_if_enrolled(user, course);
\* if not is_enrolled and user.is_authenticated: ... else redirect
enroll_check(p) ==
  /\ req[p].pc = "check"
  /\ LET is_enrolled == check_if_enrolled(req[p].user, req[p].course.id) IN
       IF EnrollGuard(is_enrolled, req[p].user)
         THEN /\ req' = [req EXCEPT ![p].pc = "create"]
              /\ UNCHANGED resp
         ELSE /\ req' = [req EXCEPT ![p] = Idle]
              /\ resp' = [view |-> "enroll", user |-> req[p].user,
                          course_id |-> req[p].course.id, status |-> "302",
                          is_enrolled |-> is_enrolled]
  /\ UNCHANGED <<enrollments, total_enrollment, submissions, is_correct>>

\* Enrollment.objects.create(user=user, course=course, mode='honor')
enroll_create(p) ==
  /\ req[p].pc = "create"
  /\ enrollments' = enrollments \cup
       {[id |-> NextId(enrollments), user |-> req[p].user,
         course |-> req[p].course.id, mode |-> "honor"]}
  /\ req' = [req EXCEPT ![p].pc = "save"]
  /\ UNCHANGED <<total_enrollment, submissions, is_correct, resp>>

\* course.total_enrollment += 1; course.save(); redirect.
\* save() writes the fields of the object loaded at the start of the view.
enroll_save(p) ==
  /\ req[p].pc = "save"
  /\ total_enrollment' =
       [total_enrollment EXCEPT ![req[p].course.id] = req[p].course.total_enrollment + 1]
  /\ req' = [req EXCEPT ![p] = Idle]
  /\ resp' = [view |-> "enroll", user |-> req[p].user,
              course_id |-> req[p].course.id, status |-> "302",
              is_enrolled |-> FALSE]
  /\ UNCHANGED <<enrollments, submissions, is_correct>>

\* Workers serving an enroll request
InProgress == {p \in Procs : req[p] # Idle}

Init ==
  /\ enrollments = {}
  /\ total_enrollment = [c \in Courses |-> 0]
  /\ submissions = {}
  /\ is_correct = InitialKey
  /\ req = [p \in Procs |-> Idle]
  /\ resp = [view |-> "none"]

(***************************************************************************)
(* submit(request, course_id): views.py 91-112                             *)
(***************************************************************************)
\* request.POST is a sequence of fields [key, value]: the exam form's
\* checkboxes have a key that starts with 'choice' and carry a Choice id.
\* extract_answers(request): the values of those fields, in the order of
\* the form
RECURSIVE extract_answers(_)
extract_answers(post) ==
  IF post = <<>>
    THEN <<>>
    ELSE IF Head(post).key = "choice"
           THEN <<Head(post).value>> \o extract_answers(Tail(post))
           ELSE extract_answers(Tail(post))

\* submission.choices.set(choices): the many-to-many relation holds each
\* Choice at most once
choices_set(answers) == {answers[i] : i \in DOMAIN answers}

\* the lookup with the user left out: Enrollment.objects.get(course=course)
enrollment_get_any_user(user, course) ==
  LET found == {e \in enrollments : e.course = course} IN
    CASE ~is_authenticated(user)   -> [raised |-> "TypeError"]
      [] Cardinality(found) = 0    -> [raised |-> "DoesNotExist"]
      [] Cardinality(found) > 1    -> [raised |-> "MultipleObjectsReturned"]
      [] OTHER                     -> [raised |-> "", row |-> CHOOSE e \in found : TRUE]

\* Enrollment.objects.get(user=user, course=course): the row, or the
\* exception get() raises when not exactly one row matches
enrollment_get(user, course) ==
  LET found == EnrollmentsOf(user, course) IN
    CASE ~is_authenticated(user)   -> [raised |-> "TypeError"]
      [] Cardinality(found) = 0    -> [raised |-> "DoesNotExist"]
      [] Cardinality(found) > 1    -> [raised |-> "MultipleObjectsReturned"]
      [] OTHER                     -> [raised |-> "", row |-> CHOOSE e \in found : TRUE]

\* The view: the course lookup, the enrollment lookup, then the Submission
\* row and its choices.  The lookups change nothing and nothing deletes an
\* Enrollment, so the view is one step.
submit(user, course_id, post) ==
  /\ IF course_id \notin Courses
       THEN /\ resp' = [view |-> "submit", user |-> user, course_id |-> course_id,
                        status |-> "404"]
            /\ UNCHANGED submissions
       ELSE LET enrollment == enrollment_get(user, course_id) IN
              IF enrollment.raised # ""
                THEN /\ resp' = [view |-> "submit", user |-> user,
                                 course_id |-> course_id, status |-> enrollment.raised]
                     /\ UNCHANGED submissions
                ELSE LET submission == [id |-> NextId(submissions),
                                        enrollment |-> enrollment.row.id,
                                        choices |-> choices_set(extract_answers(post))] IN
                       /\ submissions' = submissions \cup {submission}
                       /\ resp' = [view |-> "submit", user |-> user,
                                   course_id |-> course_id, status |-> "302",
                                   submission_id |-> submission.id]
  /\ UNCHANGED <<enrollments, total_enrollment, is_correct, req>>

(***************************************************************************)
(* show_exam_result(request, course_id, submission_id): views.py 114-139   *)
(***************************************************************************)
\* course.question_set.all()
question_set(course) == {q \in Questions : question_course[q] = course}

\* the query without its filter: question.choice_set.all()
correct_choices_unfiltered(question) ==
  {ch \in Choices : choice_question[ch] = question}

\* question.choice_set.filter(is_correct=True)
correct_choices(question) ==
  {ch \in Choices : choice_question[ch] = question /\ is_correct[ch]}

\* choices.filter(question=question)
selected_choices(choices, question) ==
  {ch \in choices : choice_question[ch] = question}

\* the loop body with the test of Question.is_get_score: every correct
\* choice is selected (the other selected choices are not looked at)
awarded_if_all_correct_selected(question, choices) ==
  IF correct_choices(question) \subseteq selected_choices(choices, question)
    THEN question_grade[question]
    ELSE 0

\* what one pass of the loop adds to total_score
awarded(question, choices) ==
  IF correct_choices(question) = selected_choices(choices, question)
    THEN question_grade[question]
    ELSE 0

\* total_score after the loop over `questions`
RECURSIVE total_score(_, _)
total_score(questions, choices) ==
  IF questions = {}
    THEN 0
    ELSE LET question == CHOOSE q \in questions : TRUE IN
           awarded(question, choices) + total_score(questions \ {question}, choices)

\* Submission.objects.get(id=submission_id)
SubmissionsWithId(submission_id) == {s \in submissions : s.id = submission_id}

\* context['grade'] of the page rendered for an existing course and submission
exam_grade(course_id, submission_id) ==
  LET submission == CHOOSE s \in SubmissionsWithId(submission_id) : TRUE IN
    total_score(question_set(course_id), submission.choices)

\* The view reads only; it is one step.
show_exam_result(course_id, submission_id) ==
  /\ resp' =
       IF course_id \notin Courses
         THEN [view |-> "show_exam_result", course_id |-> course_id,
               submission_id |-> submission_id, status |-> "404"]
         ELSE IF SubmissionsWithId(submission_id) = {}
                THEN [view |-> "show_exam_result", course_id |-> course_id,
                      submission_id |-> submission_id, status |-> "DoesNotExist"]
                ELSE [view |-> "show_exam_result", course_id |-> course_id,
                      submission_id |-> submission_id, status |-> "200",
                      grade |-> exam_grade(course_id, submission_id)]
  /\ UNCHANGED <<enrollments, total_enrollment, submissions, is_correct, req>>

(***************************************************************************)
(* The admin site (admin.py 55): an instructor edits a Choice and changes  *)
(* its is_correct flag.                                                    *)
(***************************************************************************)
choice_set_is_correct(ch) ==
  /\ is_correct' = [is_correct EXCEPT ![ch] = ~is_correct[ch]]
  /\ UNCHANGED <<enrollments, total_enrollment, submissions, req, resp>>

(***************************************************************************)
(* Specifications                                                          *)
(***************************************************************************)
\* The request bodies tried: exam forms with no answer, with answers to one
\* or to several questions, with a field that is no answer, and with the
\* same Choice sent by two fields
Answer(ch) == [key |-> "choice", value |-> ch]
Token == [key |-> "csrfmiddlewaretoken", value |-> "x7Qk"]
Posts ==
  { <<>>, <<Token>>, <<Token, Answer("A")>>, <<Answer("A"), Answer("A")>>,
    <<Answer("A"), Answer("B")>>, <<Answer("C")>>, <<Answer("D")>>,
    <<Token, Answer("A"), Answer("B"), Answer("C")>>,
    <<Answer("B"), Answer("A"), Answer("D")>> }

\* The requests arrive while the tables have room within the bounds.
EnrollArrives(p) ==
  /\ Cardinality(enrollments) + Cardinality(InProgress) < MaxEnrollments
  /\ \E user \in Callers, course_id \in CourseIds : enroll_get_course(p, user, course_id)

EnrollStep(p) == enroll_check(p) \/ enroll_create(p) \/ enroll_save(p)

\* Concurrent enroll requests: any worker takes its next step.
Next ==
  \/ \E p \in Procs : EnrollArrives(p)
  \/ \E p \in Procs : EnrollStep(p)

Spec == Init /\ [][Next]_vars

\* Concurrent enroll requests, and exam submissions between their steps.
RaceSubmit ==
  \E user \in Callers, course_id \in CourseIds :
    /\ submit(user, course_id, <<Answer("A")>>)
    /\ Cardinality(submissions') <= MaxRaceSubmissions

NextSubmit == Next \/ RaceSubmit

SpecSubmit == Init /\ [][NextSubmit]_vars

\* Enroll requests served one after another: a request arrives only when
\* no other is being served.
SeqArrives(p) == InProgress = {} /\ EnrollArrives(p)

NextSeq ==
  \/ \E p \in Procs : SeqArrives(p)
  \/ \E p \in Procs : EnrollStep(p)

SpecSeq == Init /\ [][NextSeq]_vars

\* Exams: two learners enrolled, one in each course; submissions, grading
\* and changes of the answer key in any order.
InitGrade ==
  /\ enrollments = {[id |-> 1, user |-> "u1", course |-> "c1", mode |-> "honor"],
                    [id |-> 2, user |-> "u2", course |-> "c2", mode |-> "honor"]}
  /\ total_enrollment = [c \in Courses |-> 1]
  /\ submissions = {}
  /\ is_correct = InitialKey
  /\ req = [p \in Procs |-> Idle]
  /\ resp = [view |-> "none"]

GradeSubmit ==
  \E user \in Users, course_id \in Courses, post \in Posts :
    /\ submit(user, course_id, post)
    /\ Cardinality(submissions') <= MaxSubmissions

GradeShow ==
  \E course_id \in CourseIds, submission_id \in 1..NextId(submissions) :
    show_exam_result(course_id, submission_id)

GradeKey == \E ch \in Choices : choice_set_is_correct(ch)

NextGrade == GradeSubmit \/ GradeShow \/ GradeKey

SpecGrade == InitGrade /\ [][NextGrade]_vars

(***************************************************************************)
(* Properties of concurrent enrollment                                     *)
(***************************************************************************)
\* Enrollment.objects.filter(course=course)
EnrollmentsIn(course) == {e \in enrollments : e.course = course}

\* The learners that have an Enrollment for the course
LearnersIn(course) == {e.user : e \in EnrollmentsIn(course)}

\* C1: whenever no enroll request is being served, the total_enrollment of
\* every course is the number of distinct learners enrolled in it.
CounterMatchesLearners ==
  InProgress = {} =>
    \A c \in Courses : total_enrollment[c] = Cardinality(LearnersIn(c))

\* C2: no (learner, course) pair has more than one Enrollment row.
OneEnrollmentPerLearnerCourse ==
  \A u \in Users, c \in Courses : Cardinality(EnrollmentsOf(u, c)) <= 1

\* C7: no step lowers the stored total_enrollment of a course.
CounterNeverDecreases ==
  [][\A c \in Courses : total_enrollment'[c] >= total_enrollment[c]]_vars

\* C10: a submit request of a learner who has an Enrollment for the course
\* is answered with the redirect to the result and adds exactly one
\* Submission, of an Enrollment of that learner and course, holding the
\* choices sent.
EnrolledLearnerCanSubmit ==
  [][\A u \in Users, c \in Courses :
       (submit(u, c, <<Answer("A")>>) /\ EnrollmentsOf(u, c) # {}) =>
         /\ resp'.status = "302"
         /\ \E s \in submissions' \ submissions :
              /\ submissions' = submissions \cup {s}
              /\ s.choices = {"A"}
              /\ \E e \in EnrollmentsOf(u, c) : s.enrollment = e.id]_vars

(***************************************************************************)
(* Properties of enroll requests                                           *)
(***************************************************************************)
\* Worker p answers the request it was serving
EnrollFinishes(p) == req[p] # Idle /\ req'[p] = Idle

\* C3: when enroll requests are served one after another, a request of a
\* learner who already has an Enrollment for the course ends at the check
\* and changes no row and no counter; and every request of a learner ends
\* with exactly one Enrollment of that learner and course, in mode 'honor',
\* and with the counter at the value it had when the request started, plus
\* one if the request found the learner not enrolled.  So once all requests
\* are answered the counter of a course is its number of Enrollment rows.
EnrollIdempotent ==
  [][\A p \in Procs :
       /\ ( /\ req[p].pc = "check"
            /\ req'[p] # req[p]
            /\ is_authenticated(req[p].user)
            /\ EnrollmentsOf(req[p].user, req[p].course.id) # {} )
          => /\ EnrollFinishes(p)
             /\ resp'.status = "302"
             /\ resp'.is_enrolled
             /\ enrollments' = enrollments
             /\ total_enrollment' = total_enrollment
       /\ (EnrollFinishes(p) /\ is_authenticated(req[p].user))
          => LET u == req[p].user
                 c == req[p].course.id
             IN /\ \E e \in enrollments' :
                     /\ {x \in enrollments' : x.user = u /\ x.course = c} = {e}
                     /\ e.mode = "honor"
                /\ total_enrollment'[c] =
                     req[p].course.total_enrollment + (IF resp'.is_enrolled THEN 0 ELSE 1)
                /\ \A d \in Courses :
                     total_enrollment'[d] =
                       Cardinality({x \in enrollments' : x.course = d})]_vars

\* C3 witness: a second request of an enrolled learner was answered, and
\* the learner has one Enrollment and the course a counter of 1.
EnrollIdempotentWitness ==
  /\ InProgress = {}
  /\ resp.view = "enroll"
  /\ resp.status = "302"
  /\ resp.is_enrolled
  /\ resp.user \in Users
  /\ Cardinality(EnrollmentsOf(resp.user, resp.course_id)) = 1
  /\ total_enrollment[resp.course_id] = 1

\* The caller of the request worker p takes a step of
CallerOf(p) == IF req[p] = Idle THEN req'[p].user ELSE req[p].user

\* C9: no step of an enroll request of an anonymous caller for an existing
\* course changes an Enrollment row or a counter, and the request is
\* answered, with the redirect, at its check.
AnonymousEnrollNoOp ==
  [][\A p \in Procs :
       (req'[p] # req[p] /\ CallerOf(p) = AnonymousUser) =>
         /\ enrollments' = enrollments
         /\ total_enrollment' = total_enrollment
         /\ req[p] # Idle =>
              /\ EnrollFinishes(p)
              /\ resp'.view = "enroll"
              /\ resp'.user = AnonymousUser
              /\ resp'.status = "302"]_vars

\* C9 witness: an anonymous enroll request for a course in which learners
\* are enrolled was answered with the redirect.
AnonymousEnrollWitness ==
  /\ resp.view = "enroll"
  /\ resp.user = AnonymousUser
  /\ resp.status = "302"
  /\ resp.course_id \in Courses
  /\ EnrollmentsIn(resp.course_id) # {}

(***************************************************************************)
(* Properties of submissions and grading                                   *)
(***************************************************************************)
\* The step answers a submit request, or a request for a result page
SubmitAnswered ==
  resp'.view = "submit" /\ <<resp, submissions>>' # <<resp, submissions>>

ResultAnswered == resp'.view = "show_exam_result" /\ resp' # resp

\* Under the answer key `key`, the selection lacks a correct choice of the
\* question, or holds a choice of the question that is not correct
MissesCorrect(key, question, selection) ==
  \E ch \in Choices : choice_question[ch] = question /\ key[ch] /\ ch \notin selection

HasExtra(key, question, selection) ==
  \E ch \in selection : choice_question[ch] = question /\ ~key[ch]

\* The questions of the course that the selection matches exactly
ExactlyMatched(key, course, selection) ==
  {q \in Questions : /\ question_course[q] = course
                     /\ ~MissesCorrect(key, q, selection)
                     /\ ~HasExtra(key, q, selection)}

\* The sum of the grades of a set of questions
RECURSIVE SumOfGrades(_)
SumOfGrades(qs) ==
  IF qs = {}
    THEN 0
    ELSE LET q == CHOOSE x \in qs : TRUE IN question_grade[q] + SumOfGrades(qs \ {q})

\* The score the exact-match rule gives the selection under the answer key
ExactMatchScore(key, course, selection) ==
  SumOfGrades(ExactlyMatched(key, course, selection))

RespSubmissions == {s \in submissions : s.id = resp.submission_id}

GradeRejectsForeignSubmission ==
  (resp.view = "show_exam_result" /\ resp.status = "200") =>
    \E s \in RespSubmissions, e \in enrollments :
      e.id = s.enrollment /\ e.course = resp.course_id

\* C6: a submit request of a learner for an existing course in which the
\* learner has no Enrollment fails and leaves the Submission table, rows and
\* choices, as it was.
UnenrolledSubmitRejected ==
  [][\A u \in Users, c \in Courses :
       ( /\ SubmitAnswered
         /\ resp'.user = u
         /\ resp'.course_id = c
         /\ EnrollmentsOf(u, c) = {} )
       => /\ resp'.status = "DoesNotExist"
          /\ submissions' = submissions]_vars

\* C6 witness: such a request failed while the table holds a submission.
UnenrolledSubmitWitness ==
  /\ resp.view = "submit"
  /\ resp.status = "DoesNotExist"
  /\ resp.user \in Users
  /\ resp.course_id \in Courses
  /\ EnrollmentsOf(resp.user, resp.course_id) = {}
  /\ submissions # {}

\* C8: no step changes a stored Submission; a result page shows the
\* exact-match score of the stored selection under the answer key of the
\* moment of the request; and a change of a flag that changes whether a
\* question with a non-zero grade is matched exactly changes the grade the
\* page shows for that submission.
RegradeFollowsKey ==
  [][/\ submissions \subseteq submissions'
     /\ \A c \in Courses, s \in submissions :
          (ResultAnswered /\ resp'.course_id = c /\ resp'.submission_id = s.id) =>
            resp'.grade = ExactMatchScore(is_correct, c, s.choices)
     /\ \A ch \in Choices, s \in submissions :
          LET q == choice_question[ch]
              c == question_course[q]
          IN ( /\ choice_set_is_correct(ch)
               /\ question_grade[q] # 0
               /\ (q \in ExactlyMatched(is_correct, c, s.choices))
                    # (q \in ExactlyMatched(is_correct', c, s.choices)) )
             => exam_grade(c, s.id)' # exam_grade(c, s.id)]_vars

\* C8 witness: the answer key was changed after the submission, and the
\* result page shows a grade that is the score under the key of the moment
\* and not the score under the key of the time of the submission.
RegradeFollowsKeyWitness ==
  /\ resp.view = "show_exam_result"
  /\ resp.status = "200"
  /\ resp.course_id \in Courses
  /\ is_correct # InitialKey
  /\ \E s \in RespSubmissions :
       /\ resp.grade = ExactMatchScore(is_correct, resp.course_id, s.choices)
       /\ resp.grade # ExactMatchScore(InitialKey, resp.course_id, s.choices)
=============================================================================
